---- MODULE Spec2Model ----
(***************************************************************************)
(* Model of src/components/chat-area.tsx: the ChatArea component, a        *)
(* function of the props (messages, input, isLoading) and of the two       *)
(* callbacks handleInputChange and handleSubmit, together with the user    *)
(* events its composer form receives and the caller that owns the props.   *)
(*                                                                         *)
(* Strings are sequences of characters. The view is a record of what the   *)
(* JSX tree of one render contains: the transcript (greeting, bubbles and  *)
(* loading indicator, in document order), the value of the textarea and    *)
(* the disabled flag of the submit button.                                 *)
(***************************************************************************)
EXTENDS Naturals, Sequences, FiniteSets

VARIABLES
    messages,   \* prop messages: Message[] (owned by the caller)
    input,      \* prop input: string (owned by the caller)
    isLoading,  \* prop isLoading: boolean (owned by the caller)
    view,       \* the output of the latest render of ChatArea
    event,      \* the latest thing that happened to the component
    calls,      \* the callbacks the latest step invoked, in order
    memo        \* an earlier render kept for comparison (<<>> when none)

vars == <<messages, input, isLoading, view, event, calls, memo>>

----------------------------------------------------------------------------
(* Bounds of the model *)

MaxLen == 2        \* longest draft string
MaxMsgs == 2       \* longest message list
PairMaxLen == 1    \* longest draft string when two renders are compared
PairMaxMsgs == 1   \* longest message list when two renders are compared

(* Whitespace are the characters String.prototype.trim removes. *)
Whitespace == {" ", "\n"}

(* What the caller and the user draw the props and the edits from.       *)
(* Message.role of the "ai" package has more values than "user" and      *)
(* "assistant"; "system" stands for them.                                *)
Universe ==
    [chars    |-> {"a", " ", "\n"},
     roles    |-> {"user", "assistant", "system"},
     contents |-> {<<"a">>, <<" ", "a">>},
     maxLen   |-> MaxLen,
     maxMsgs  |-> MaxMsgs]

(* A smaller universe, for comparing a render with an earlier one. *)
PairUniverse ==
    [chars    |-> {"a", " "},
     roles    |-> {"user", "assistant"},
     contents |-> {<<"a">>},
     maxLen   |-> PairMaxLen,
     maxMsgs  |-> PairMaxMsgs]

RECURSIVE StringsUpTo(_, _)
StringsUpTo(chars, n) ==
    IF n = 0 THEN {<<>>}
    ELSE LET S == StringsUpTo(chars, n - 1)
         IN  S \cup {Append(s, c) : s \in {t \in S : Len(t) = n - 1}, c \in chars}

(* Message lists of length at most n; the caller gives message i the id i. *)
RECURSIVE MessageListsUpTo(_, _)
MessageListsUpTo(U, n) ==
    IF n = 0 THEN {<<>>}
    ELSE LET S == MessageListsUpTo(U, n - 1)
         IN  S \cup {Append(l, [id |-> n, role |-> r, content |-> c]) :
                        l \in {t \in S : Len(t) = n - 1},
                        r \in U.roles, c \in U.contents}

----------------------------------------------------------------------------
(* String.prototype.trim, as used on line 127 *)

RECURSIVE TrimStart(_)
TrimStart(s) ==
    IF s = <<>> THEN <<>>
    ELSE IF Head(s) \in Whitespace THEN TrimStart(Tail(s))
    ELSE s

RECURSIVE TrimEnd(_)
TrimEnd(s) ==
    IF s = <<>> THEN <<>>
    ELSE IF s[Len(s)] \in Whitespace THEN TrimEnd(SubSeq(s, 1, Len(s) - 1))
    ELSE s

Trim(s) == TrimEnd(TrimStart(s))

----------------------------------------------------------------------------
(* The render: lines 40-137 *)

Greeting == [kind |-> "greeting"]

LoadingIndicator == [kind |-> "loading"]

(* Bubble with the avatar chosen by a test for "assistant" instead of "user". *)
BubbleAvatarByAssistant(message) ==
    [kind   |-> "bubble",
     key    |-> message.id,
     align  |-> IF message.role = "user" THEN "justify-end" ELSE "justify-start",
     row    |-> IF message.role = "user" THEN "flex-row-reverse" ELSE "",
     avatar |-> IF message.role = "assistant" THEN "AI" ELSE "U",
     color  |-> IF message.role = "user" THEN "bg-primary text-primary-foreground"
                                        ELSE "bg-muted",
     text   |-> message.content]

(* Lines 67-92: one bubble of messages.map *)
Bubble(message) ==
    [kind   |-> "bubble",
     key    |-> message.id,
     align  |-> IF message.role = "user" THEN "justify-end" ELSE "justify-start",
     row    |-> IF message.role = "user" THEN "flex-row-reverse" ELSE "",
     avatar |-> IF message.role = "user" THEN "U" ELSE "AI",
     color  |-> IF message.role = "user" THEN "bg-primary text-primary-foreground"
                                        ELSE "bg-muted",
     text   |-> message.content]

(* MessageHistory with the greeting rendered unconditionally above the bubbles. *)
MessageHistoryAlwaysGreeting(msgs) ==
    <<Greeting>> \o [i \in 1..Len(msgs) |-> Bubble(msgs[i])]

(* Lines 55-94: the greeting, or messages.map in array order *)
MessageHistory(msgs) ==
    IF Len(msgs) = 0 THEN <<Greeting>>
    ELSE [i \in 1..Len(msgs) |-> Bubble(msgs[i])]

(* LoadingShown without the test of the last message's role. *)
LoadingShownAnyRole(msgs, loading) ==
    loading /\ Len(msgs) > 0

(* LoadingShown without the test of isLoading. *)
LoadingShownIgnoresLoading(msgs, loading) ==
    Len(msgs) > 0 /\ msgs[Len(msgs)].role = "user"

(* Line 96: isLoading && messages.length > 0 && messages[length-1]?.role === 'user' *)
LoadingShown(msgs, loading) ==
    loading /\ Len(msgs) > 0 /\ msgs[Len(msgs)].role = "user"

(* Transcript with the loading indicator placed above the message history. *)
TranscriptIndicatorFirst(msgs, loading) ==
    (IF LoadingShown(msgs, loading) THEN <<LoadingIndicator>> ELSE <<>>) \o MessageHistory(msgs)

(* Lines 53-113: the children of the space-y-6 div, in document order *)
Transcript(msgs, loading) ==
    MessageHistory(msgs) \o (IF LoadingShown(msgs, loading) THEN <<LoadingIndicator>> ELSE <<>>)

(* ComposerValue of an uncontrolled textarea: it keeps the text just typed. *)
ComposerValueUncontrolled(draft) ==
    IF event.type = "change" THEN event.value ELSE draft

(* Line 121: value={input} *)
ComposerValue(draft) == draft

(* SubmitDisabled without the trim: !input. *)
SubmitDisabledNoTrim(draft, loading) == loading \/ draft = <<>>

(* SubmitDisabled without isLoading: !input.trim(). *)
SubmitDisabledIgnoresLoading(draft, loading) == Trim(draft) = <<>>

(* Line 127: disabled={isLoading || !input.trim()} *)
SubmitDisabled(draft, loading) == loading \/ Trim(draft) = <<>>

(* ChatArea with a local flag that keeps the button disabled after a click. *)
ChatAreaLocalSubmitted(msgs, draft, loading) ==
    [transcript |-> Transcript(msgs, loading),
     value      |-> ComposerValue(draft),
     disabled   |-> SubmitDisabled(draft, loading) \/ event.type = "click"]

(* Lines 40-137: the three regions that depend on the props *)
ChatArea(msgs, draft, loading) ==
    [transcript |-> Transcript(msgs, loading),
     value      |-> ComposerValue(draft),
     disabled   |-> SubmitDisabled(draft, loading)]

----------------------------------------------------------------------------
(* Callbacks wired on lines 118 and 122 *)

OnChange(v) == <<[fn |-> "handleInputChange", arg |-> v]>>

OnSubmit == <<[fn |-> "handleSubmit", arg |-> <<>>]>>

(* A submit button activates its form only when it is not disabled. *)
ButtonActivates(disabled) == ~disabled

----------------------------------------------------------------------------
(* The state after the component is mounted with some props *)

NoEvent(type) == [type |-> type, value |-> <<>>]

InitWithin(U) ==
    /\ event = NoEvent("mount")
    /\ calls = <<>>
    /\ memo = <<>>
    /\ messages \in MessageListsUpTo(U, U.maxMsgs)
    /\ input \in StringsUpTo(U.chars, U.maxLen)
    /\ isLoading \in BOOLEAN
    /\ view = ChatArea(messages, input, isLoading)

Init == InitWithin(Universe)

----------------------------------------------------------------------------
(* User events on the composer form, lines 118-130 *)

(* The texts one edit of the textarea can turn text s into. *)
Edits(s, U) ==
    {Append(s, c) : c \in (IF Len(s) < U.maxLen THEN U.chars ELSE {})}
        \cup (IF Len(s) > 0 THEN {SubSeq(s, 1, Len(s) - 1)} ELSE {})

(* Lines 119-126: an edit of the textarea fires onChange={handleInputChange}; *)
(* the textarea is controlled, so it keeps showing value={input}.            *)
Type(v) ==
    /\ event' = [type |-> "change", value |-> v]
    /\ calls' = OnChange(v)
    /\ UNCHANGED <<messages, input, isLoading, view, memo>>

(* Lines 118, 127-129: a click on the type="submit" button submits the form, *)
(* which fires onSubmit={handleSubmit}.                                      *)
ClickSend ==
    /\ event' = NoEvent("click")
    /\ calls' = IF ButtonActivates(view.disabled) THEN OnSubmit ELSE <<>>
    /\ UNCHANGED <<messages, input, isLoading, view, memo>>

(* The same button activated from the keyboard. *)
KeySubmit ==
    /\ event' = NoEvent("key")
    /\ calls' = IF ButtonActivates(view.disabled) THEN OnSubmit ELSE <<>>
    /\ UNCHANGED <<messages, input, isLoading, view, memo>>

----------------------------------------------------------------------------
(* The caller: it owns the props (lines 28-34) and every change of them *)
(* renders ChatArea again (line 40).                                     *)

Render ==
    /\ view' = ChatArea(messages', input', isLoading')
    /\ calls' = <<>>
    /\ UNCHANGED memo

(* The caller's handleInputChange takes over the text of the change event. *)
AcceptChange ==
    /\ event.type = "change"
    /\ input' = event.value
    /\ event' = NoEvent("props")
    /\ UNCHANGED <<messages, isLoading>>
    /\ Render

(* The caller empties the draft, as after a submission. *)
ClearInput ==
    /\ input # <<>>
    /\ input' = <<>>
    /\ event' = NoEvent("props")
    /\ UNCHANGED <<messages, isLoading>>
    /\ Render

(* The caller appends a message to the conversation. *)
AppendMessage(role, content) ==
    /\ messages' = Append(messages, [id |-> Len(messages) + 1, role |-> role, content |-> content])
    /\ event' = NoEvent("props")
    /\ UNCHANGED <<input, isLoading>>
    /\ Render

(* The caller starts a new conversation. *)
ResetMessages ==
    /\ messages # <<>>
    /\ messages' = <<>>
    /\ event' = NoEvent("props")
    /\ UNCHANGED <<input, isLoading>>
    /\ Render

(* A response starts or stops being generated. *)
ToggleLoading ==
    /\ isLoading' = ~isLoading
    /\ event' = NoEvent("props")
    /\ UNCHANGED <<messages, input>>
    /\ Render

(* Rerender of a component that reverses the messages array in place. *)
RerenderReversing ==
    /\ event' = NoEvent("rerender")
    /\ messages' = [i \in 1..Len(messages) |-> messages[Len(messages) + 1 - i]]
    /\ UNCHANGED <<input, isLoading>>
    /\ Render

(* The caller renders ChatArea again with the same props. *)
Rerender ==
    /\ event' = NoEvent("rerender")
    /\ UNCHANGED <<messages, input, isLoading>>
    /\ Render

(* An observer keeps the current render to compare later renders with it. *)
Remember ==
    /\ memo' = <<[messages |-> messages, input |-> input, isLoading |-> isLoading, view |-> view]>>
    /\ UNCHANGED <<messages, input, isLoading, view, event, calls>>

----------------------------------------------------------------------------

NextWithin(U) ==
    \/ \E v \in Edits(view.value, U) : Type(v)
    \/ ClickSend
    \/ KeySubmit
    \/ AcceptChange
    \/ ClearInput
    \/ \E r \in U.roles, c \in U.contents : Len(messages) < U.maxMsgs /\ AppendMessage(r, c)
    \/ ResetMessages
    \/ ToggleLoading
    \/ Rerender

Next == NextWithin(Universe)

Spec == Init /\ [][Next]_vars

(* The same component with an observer that compares two of its renders. *)
PairInit == InitWithin(PairUniverse)

PairNext == NextWithin(PairUniverse) \/ Remember

PairSpec == PairInit /\ [][PairNext]_vars

----------------------------------------------------------------------------
(* What a render shows, read off the view alone *)

IsBlank(s) == \A i \in 1..Len(s) : s[i] \in Whitespace

IndicatorVisible == \E i \in 1..Len(view.transcript) : view.transcript[i].kind = "loading"

GreetingVisible == \E i \in 1..Len(view.transcript) : view.transcript[i].kind = "greeting"

BubbleCount == Cardinality({i \in 1..Len(view.transcript) : view.transcript[i].kind = "bubble"})

LastIsUser == Len(messages) > 0 /\ messages[Len(messages)].role = "user"

HandleSubmitIn(cs) == \E i \in 1..Len(cs) : cs[i].fn = "handleSubmit"

----------------------------------------------------------------------------
(* Properties *)

\* C1: the loading indicator is rendered if and only if isLoading is true,
\* messages is non-empty and the last message's role is "user".
IndicatorIffAwaitingReply ==
    IndicatorVisible <=> (isLoading /\ messages # <<>> /\ LastIsUser)

\* C1 witness: loading with a last message that is not from the user, no indicator.
IndicatorHiddenAfterReply ==
    /\ isLoading
    /\ messages # <<>>
    /\ ~LastIsUser
    /\ ~IndicatorVisible

\* C2: the submit control is disabled if and only if isLoading is true or the
\* draft consists of whitespace only (is empty once trimmed).
DisabledIffLoadingOrBlank ==
    view.disabled <=> (isLoading \/ IsBlank(input))

\* C2 witness: a non-empty draft of whitespace only disables the control while
\* nothing is loading.
DisabledByWhitespaceDraft ==
    /\ ~isLoading
    /\ input # <<>>
    /\ IsBlank(input)
    /\ view.disabled

\* C3: with no messages the transcript is the greeting alone, and the greeting
\* is rendered only when there are no messages, never next to a bubble.
GreetingOnlyWhenEmpty ==
    /\ messages = <<>> => view.transcript = <<Greeting>>
    /\ GreetingVisible => (messages = <<>> /\ BubbleCount = 0)

\* C3 witness: no messages while loading, with a draft typed.
EmptyChatWhileLoading ==
    /\ messages = <<>>
    /\ isLoading
    /\ input # <<>>
    /\ GreetingVisible

\* C4: a step invokes handleSubmit only if it is a submission of the form (click
\* or keyboard) made while isLoading is false and the trimmed draft is non-empty.
SubmitOnlyWhenEnabled ==
    [][HandleSubmitIn(calls') =>
          /\ event'.type \in {"click", "key"}
          /\ ~view.disabled
          /\ ~isLoading
          /\ ~IsBlank(input)]_vars

\* C4 witness: the send control was clicked while loading with a draft that is
\* not blank, and nothing was invoked.
ClickWhileLoadingIgnored ==
    /\ event.type = "click"
    /\ isLoading
    /\ ~IsBlank(input)
    /\ calls = <<>>

\* C5: an edit invokes handleInputChange exactly once with the new text and
\* nothing else, and the composer shows the input prop of the latest render.
EditCallsBackOnceAndShowsProp ==
    /\ event.type = "change" => calls = <<[fn |-> "handleInputChange", arg |-> event.value]>>
    /\ view.value = input

\* C5 witness: an edit the caller has not taken over: the text typed differs
\* from the prop.
EditNotYetAccepted ==
    /\ event.type = "change"
    /\ event.value # input
    /\ Len(calls) = 1

\* C6: with messages, the transcript is one bubble per message in the order of
\* the messages, each with the message's content, and the loading indicator,
\* when rendered, is the last element.
BubblesFollowMessages ==
    messages # <<>> =>
        LET t == view.transcript
            n == Len(messages)
        IN  /\ Len(t) \in {n, n + 1}
            /\ \A i \in 1..n :
                  /\ t[i].kind = "bubble"
                  /\ t[i].key = messages[i].id
                  /\ t[i].text = messages[i].content
            /\ Len(t) = n + 1 => t[n + 1].kind = "loading"

\* C6 witness: two messages with different contents followed by the indicator.
TwoBubblesThenIndicator ==
    /\ Len(messages) = 2
    /\ messages[1].content # messages[2].content
    /\ Len(view.transcript) = 3
    /\ IndicatorVisible

\* C7: user events and renders leave the caller's messages and draft unchanged.
ComponentLeavesPropsAlone ==
    [][event'.type \in {"change", "click", "key", "rerender"} =>
          (messages' = messages /\ input' = input)]_vars

\* C7 witness: a render with the same props, of two different messages and a draft.
RerenderedWithMessages ==
    /\ event.type = "rerender"
    /\ Len(messages) = 2
    /\ messages[1].role # messages[2].role
    /\ input # <<>>

\* C8: a bubble has the user style if and only if its message's role is "user";
\* every other role gets the assistant style in all the role-dependent choices.
BubbleStyleByRole ==
    \A i \in 1..Len(view.transcript) :
        view.transcript[i].kind = "bubble" =>
            LET b == view.transcript[i]
            IN  /\ i <= Len(messages)
                /\ IF messages[i].role = "user"
                   THEN /\ b.align = "justify-end"
                        /\ b.row = "flex-row-reverse"
                        /\ b.avatar = "U"
                        /\ b.color = "bg-primary text-primary-foreground"
                   ELSE /\ b.align = "justify-start"
                        /\ b.row = ""
                        /\ b.avatar = "AI"
                        /\ b.color = "bg-muted"

\* C8 witness: a message whose role is neither "user" nor "assistant" is rendered.
SystemMessageRendered ==
    \E i \in 1..Len(messages) :
        /\ messages[i].role = "system"
        /\ i <= Len(view.transcript)
        /\ view.transcript[i].kind = "bubble"

IndicatorImpliesDisabled ==
    IndicatorVisible => view.disabled

\* C10 witness: the indicator is visible over a draft that is not blank.
IndicatorOverFilledDraft ==
    /\ IndicatorVisible
    /\ ~IsBlank(input)
    /\ view.disabled

\* The converse of C10 fails: the control disabled by isLoading with no indicator.
DisabledWithoutIndicator ==
    /\ view.disabled
    /\ isLoading
    /\ ~IsBlank(input)
    /\ ~IndicatorVisible

====
